---- MODULE Spec2Model ----
(***************************************************************************)
(* FinFamily-ERP: the record list kept by App, the month view of           *)
(* ModuleDetail, the goal/provision reconciliation (getProjectionData,     *)
(* getRealizationData), the progress percentage and the dashboard totals.  *)
(*                                                                         *)
(* Strings the code inspects character by character (titles, ISO dates)    *)
(* are sequences of one-character strings.  Amounts are whole numbers of   *)
(* the currency unit.  A JavaScript number that may be non-finite (the     *)
(* progress percentage) is a record [kind, n, d]: the fraction n/d, or     *)
(* "NaN", "Infinity", "-Infinity".                                         *)
(***************************************************************************)
EXTENDS Integers, Sequences, FiniteSets, TLC

VARIABLES
    transactions,   \* App: the local record list
    activeModule,   \* App: the module shown, or NoModule
    isLoading,      \* App: the spinner flag
    user,           \* App: the signed-in user, or NoUser
    currentDate,    \* ModuleDetail: the selected month
    form,           \* ModuleDetail: isFormOpen, editingItem and the four fields
    ai,             \* ModuleDetail: aiLoading, aiResult, and the advice call in flight
    rendered,       \* what the last render computed
    session,        \* the auth provider: the user of the session, or NoUser
    db,             \* the record store: the rows of the transactions table
    nextId,         \* the record store: the id of the next inserted row
    inflight,       \* the calls to the auth provider and the record store in flight
    console         \* the last message of console.error

vars == <<transactions, activeModule, isLoading, user, currentDate, form, ai,
          rendered, session, db, nextId, inflight, console>>

\* everything but the month view
storeVars == <<transactions, isLoading, user, session, db, nextId, inflight, console>>

(***************************************************************************)
(* Bounds                                                                  *)
(***************************************************************************)
\* longest record list of SpecMatch, SpecGoal, SpecTotals, SpecMonth
MaxMatchRecords == 3
MaxGoalRecords == 3
MaxTotalRecords == 3
MaxMonthRecords == 2
\* longest record list of SpecTitle and of SpecReverse
MaxTitleRecords == 3
MaxReverseRecords == 3
\* longest record list of SpecForm
MaxFormRecords == 1
\* how many calls to the auth provider and the record store are in flight
MaxInflight == 2
\* the same in SpecStore
MaxStoreCalls == 1
\* longest record list of SpecChart
MaxChartRecords == 3
\* how far SpecFrame moves from the opening month
MaxFrameMonths == 1
\* how many ids the record store hands out
MaxIds == 1
\* largest amount of a record in SpecGoal
MaxAmount == 2
\* how many months the month view moves away from the month it opened on
MaxMonthSteps == 12

(***************************************************************************)
(* types: ModuleType, TransactionType                                      *)
(***************************************************************************)
BUDGET == "budget"
TRAVEL == "travel"
INVESTMENT == "investment"
PROJECTION == "projection"
ModuleType == {BUDGET, TRAVEL, INVESTMENT, PROJECTION}

INCOME == "income"
EXPENSE == "expense"
ASSET == "asset"
TransactionType == {INCOME, EXPENSE, ASSET}

\* activeModule = null in App: the dashboard is shown
NoModule == "none"

\* an absent value (null) is the empty sequence, a present one a 1-tuple
None == <<>>
Some(x) == <<x>>

(***************************************************************************)
(* Sequence helpers standing for Array.prototype.filter / reduce / find    *)
(***************************************************************************)
\* s.filter(Keep)
Filter(s, Keep(_)) == SelectSeq(s, Keep)

\* s.find(Keep): the first element with Keep, or undefined
Find(s, Keep(_)) ==
    LET hits == SelectSeq(s, Keep) IN IF hits = <<>> THEN None ELSE Some(Head(hits))

\* a sequence without its i-th element
RemoveAt(s, i) == SubSeq(s, 1, i - 1) \o SubSeq(s, i + 1, Len(s))

RECURSIVE SumAmount(_, _)
\* s.reduce((sum, t) => sum + t.amount, 0): the fold over the first n elements
SumAmount(s, n) ==
    IF n = 0 THEN 0 ELSE SumAmount(s, n - 1) + s[n].amount

RECURSIVE SignedSum_assetIgnored(_, _)
\* the signed fold with asset records contributing nothing
SignedSum_assetIgnored(s, n) ==
    IF n = 0 THEN 0
    ELSE IF s[n].type = INCOME THEN SignedSum_assetIgnored(s, n - 1) + s[n].amount
    ELSE IF s[n].type = EXPENSE THEN SignedSum_assetIgnored(s, n - 1) - s[n].amount
    ELSE SignedSum_assetIgnored(s, n - 1)

RECURSIVE SignedSum(_, _)
\* s.reduce((acc, curr) => curr.type === INCOME ? acc + curr.amount : acc - curr.amount, 0)
SignedSum(s, n) ==
    IF n = 0 THEN 0
    ELSE IF s[n].type = INCOME THEN SignedSum(s, n - 1) + s[n].amount
    ELSE SignedSum(s, n - 1) - s[n].amount

(***************************************************************************)
(* String.prototype.toLowerCase / trim / split and Number()                *)
(***************************************************************************)
LowerChar(c) ==
    CASE c = "A" -> "a"
      [] c = "B" -> "b"
      [] OTHER -> c

toLowerCase(str) == [i \in 1..Len(str) |-> LowerChar(str[i])]

RECURSIVE trimStart(_)
trimStart(str) ==
    IF str # <<>> /\ Head(str) = " " THEN trimStart(Tail(str)) ELSE str

RECURSIVE trimEnd(_)
trimEnd(str) ==
    IF str # <<>> /\ str[Len(str)] = " "
    THEN trimEnd(SubSeq(str, 1, Len(str) - 1)) ELSE str

trim(str) == trimEnd(trimStart(str))

\* the comparison form without the trim
normalize_untrimmed(str) == toLowerCase(str)

\* const normalize = (str) => str.toLowerCase().trim()
normalize(str) == trim(toLowerCase(str))

\* position of the first sep in str, 0 when there is none
IndexOf(str, sep) ==
    IF \E i \in 1..Len(str) : str[i] = sep
    THEN CHOOSE i \in 1..Len(str) : str[i] = sep /\ \A j \in 1..(i - 1) : str[j] # sep
    ELSE 0

RECURSIVE split(_, _)
\* str.split(sep) for a one-character separator
split(str, sep) ==
    LET hit == IndexOf(str, sep) IN
    IF hit = 0 THEN <<str>>
    ELSE <<SubSeq(str, 1, hit - 1)>> \o split(SubSeq(str, hit + 1, Len(str)), sep)

DigitValue(c) ==
    CASE c = "0" -> 0 [] c = "1" -> 1 [] c = "2" -> 2 [] c = "3" -> 3 [] c = "4" -> 4
      [] c = "5" -> 5 [] c = "6" -> 6 [] c = "7" -> 7 [] c = "8" -> 8 [] c = "9" -> 9

RECURSIVE Number(_)
\* Number(str) of a string of decimal digits (leading zeros allowed)
Number(str) ==
    IF str = <<>> THEN 0
    ELSE 10 * Number(SubSeq(str, 1, Len(str) - 1)) + DigitValue(str[Len(str)])

\* parseFloat(str) of an optional sign followed by decimal digits
parseFloat(str) ==
    IF Head(str) = "-" THEN 0 - Number(Tail(str)) ELSE Number(str)

(***************************************************************************)
(* ISO calendar dates (YYYY-MM-DD), as the date input and the record store *)
(* deliver them                                                            *)
(***************************************************************************)
DigitChar(n) == <<"0", "1", "2", "3", "4", "5", "6", "7", "8", "9">>[n + 1]

RECURSIVE Digits(_)
\* the decimal digits of a natural number
Digits(n) == IF n < 10 THEN <<DigitChar(n)>> ELSE Digits(n \div 10) \o <<DigitChar(n % 10)>>

\* Number.prototype.toString of a whole number
toString(n) == IF n < 0 THEN <<"-">> \o Digits(0 - n) ELSE Digits(n)

ISODate(y, m, d) ==
    << DigitChar(y \div 1000), DigitChar((y \div 100) % 10),
       DigitChar((y \div 10) % 10), DigitChar(y % 10), "-",
       DigitChar(m \div 10), DigitChar(m % 10), "-",
       DigitChar(d \div 10), DigitChar(d % 10) >>

\* mutant: a monthIndex outside 0..11 wraps without carrying into the year
NewDate_noCarry(year, monthIndex) ==
    [year |-> year, month |-> monthIndex % 12]

\* new Date(year, monthIndex, 1): monthIndex outside 0..11 carries into the year
NewDate(year, monthIndex) ==
    [year |-> year + (monthIndex \div 12), month |-> monthIndex % 12]

getFullYear(date) == date.year
\* 0-based, as Date.prototype.getMonth
getMonth(date) == date.month

(***************************************************************************)
(* ModuleDetail: month filters                                             *)
(***************************************************************************)
\* the month test without the comparison of the year
InSelectedMonth_monthOnly(t, date) ==
    LET parts == split(t.date, "-")
        month == Number(parts[2])
    IN month = getMonth(date) + 1

\* the predicate shared by filteredTransactions and allCurrentMonthTransactions
InSelectedMonth(t, date) ==
    LET parts == split(t.date, "-")
        year == Number(parts[1])
        month == Number(parts[2])
    IN month = getMonth(date) + 1 /\ year = getFullYear(date)

\* App passes transactions.filter(t => t.moduleId === activeModule) as `transactions`
moduleTransactions(all, moduleId) == Filter(all, LAMBDA t : t.moduleId = moduleId)

filteredTransactions(modTx, date) == Filter(modTx, LAMBDA t : InSelectedMonth(t, date))

allCurrentMonthTransactions(all, date) == Filter(all, LAMBDA t : InSelectedMonth(t, date))

(***************************************************************************)
(* JavaScript numbers of the progress display                              *)
(***************************************************************************)
Fin(n, d) == [kind |-> "finite", n |-> n, d |-> d]
NaN == [kind |-> "NaN", n |-> 0, d |-> 1]
PosInfinity == [kind |-> "Infinity", n |-> 0, d |-> 1]
NegInfinity == [kind |-> "-Infinity", n |-> 0, d |-> 1]

\* a / b for two integers: IEEE division, exact where it is finite
Divide(a, b) ==
    IF b = 0
    THEN (IF a = 0 THEN NaN ELSE IF a > 0 THEN PosInfinity ELSE NegInfinity)
    ELSE IF b > 0 THEN Fin(a, b) ELSE Fin(0 - a, 0 - b)

\* x * k for a positive integer k
Times(x, k) == IF x.kind = "finite" THEN Fin(x.n * k, x.d) ELSE x

\* Math.min(x, k) for an integer k
MathMin(x, k) ==
    CASE x.kind = "NaN" -> NaN
      [] x.kind = "Infinity" -> Fin(k, 1)
      [] x.kind = "-Infinity" -> NegInfinity
      [] OTHER -> IF x.n > k * x.d THEN Fin(k, 1) ELSE x

\* Math.round(x): floor(x + 0.5); NaN and the infinities are returned as they are
MathRound(x) ==
    IF x.kind = "finite" THEN Fin((2 * x.n + x.d) \div (2 * x.d), 1) ELSE x

(***************************************************************************)
(* ModuleDetail: reconciliation                                            *)
(***************************************************************************)
\* the result with isOver already true at the goal
ProjectionMatch_overAtGoal(goal, total) ==
    [goalAmount |-> goal, currentTotal |-> total, isOver |-> total >= goal]

ProjectionMatch(goal, total) ==
    [goalAmount |-> goal, currentTotal |-> total, isOver |-> total > goal]

\* getProjectionData with totalSpent taken over allTransactions instead of
\* filteredTransactions
getProjectionData_totalOverAll(moduleId, all, filtered, transactionTitle) ==
    IF moduleId = PROJECTION THEN None
    ELSE
      LET projection == Find(all, LAMBDA p :
                               /\ p.moduleId = PROJECTION
                               /\ normalize(p.title) = normalize(transactionTitle))
      IN IF projection = None THEN None
         ELSE
           LET same == Filter(all, LAMBDA t :
                                normalize(t.title) = normalize(transactionTitle))
               totalSpent == SumAmount(same, Len(same))
           IN Some(ProjectionMatch(projection[1].amount, totalSpent))

\* getProjectionData taking the last matching projection instead of the first
getProjectionData_lastProjection(moduleId, all, filtered, transactionTitle) ==
    IF moduleId = PROJECTION THEN None
    ELSE
      LET hits == Filter(all, LAMBDA p :
                           /\ p.moduleId = PROJECTION
                           /\ normalize(p.title) = normalize(transactionTitle))
      IN IF hits = <<>> THEN None
         ELSE
           LET same == Filter(filtered, LAMBDA t :
                                normalize(t.title) = normalize(transactionTitle))
               totalSpent == SumAmount(same, Len(same))
           IN Some(ProjectionMatch(hits[Len(hits)].amount, totalSpent))

\* getProjectionData looking for the projection among the records of the
\* listed month only
getProjectionData_listedMonthProjection(moduleId, all, filtered, transactionTitle) ==
    IF moduleId = PROJECTION THEN None
    ELSE
      LET projection == Find(all, LAMBDA p :
                               /\ p.moduleId = PROJECTION
                               /\ filtered # <<>>
                               /\ p.date = filtered[1].date
                               /\ normalize(p.title) = normalize(transactionTitle))
      IN IF projection = None THEN None
         ELSE
           LET same == Filter(filtered, LAMBDA t :
                                normalize(t.title) = normalize(transactionTitle))
               totalSpent == SumAmount(same, Len(same))
           IN Some(ProjectionMatch(projection[1].amount, totalSpent))

\* getProjectionData(transactionTitle) in the module moduleId, where all is
\* allTransactions and filtered is filteredTransactions
getProjectionData(moduleId, all, filtered, transactionTitle) ==
    IF moduleId = PROJECTION THEN None
    ELSE
      LET projection == Find(all, LAMBDA p :
                               /\ p.moduleId = PROJECTION
                               /\ normalize(p.title) = normalize(transactionTitle))
      IN IF projection = None THEN None
         ELSE
           LET same == Filter(filtered, LAMBDA t :
                                normalize(t.title) = normalize(transactionTitle))
               totalSpent == SumAmount(same, Len(same))
           IN Some(ProjectionMatch(projection[1].amount, totalSpent))

\* getRealizationData without the exclusion of the projection records
getRealizationData_projectionsCounted(moduleId, allMonth, projection) ==
    IF moduleId # PROJECTION THEN None
    ELSE
      LET same == Filter(allMonth, LAMBDA t :
                           normalize(t.title) = normalize(projection.title))
          totalRealized == SumAmount(same, Len(same))
      IN Some(ProjectionMatch(projection.amount, totalRealized))

\* getRealizationData(projection) in the module moduleId, where allMonth is
\* allCurrentMonthTransactions
getRealizationData(moduleId, allMonth, projection) ==
    IF moduleId # PROJECTION THEN None
    ELSE
      LET same == Filter(allMonth, LAMBDA t :
                           /\ t.moduleId # PROJECTION
                           /\ normalize(t.title) = normalize(projection.title))
          totalRealized == SumAmount(same, Len(same))
      IN Some(ProjectionMatch(projection.amount, totalRealized))

\* the percentage without the clamp of Math.min
percentage_unclamped(data) ==
    IF data = None THEN Fin(0, 1)
    ELSE Times(Divide(data[1].currentTotal, data[1].goalAmount), 100)

\* const percentage = data ? Math.min((currentTotal / goalAmount) * 100, 100) : 0
percentage(data) ==
    IF data = None THEN Fin(0, 1)
    ELSE MathMin(Times(Divide(data[1].currentTotal, data[1].goalAmount), 100), 100)

\* {Math.round((currentTotal / goalAmount) * 100)}%, rendered only when data
percentageLabel(data) ==
    IF data = None THEN None
    ELSE Some(MathRound(Times(Divide(data[1].currentTotal, data[1].goalAmount), 100)))

\* one entry of filteredTransactions.map(t => ...)
Row(moduleId, all, filtered, allMonth, t) ==
    LET data == IF moduleId = PROJECTION
                THEN getRealizationData(moduleId, allMonth, t)
                ELSE getProjectionData(moduleId, all, filtered, t.title)
    IN [t |-> t, data |-> data, percentage |-> percentage(data),
        label |-> percentageLabel(data)]

\* what ModuleDetail computes for the list of the selected month
ModuleDetailView(all, moduleId, date) ==
    LET filtered == filteredTransactions(moduleTransactions(all, moduleId), date)
        allMonth == allCurrentMonthTransactions(all, date)
    IN [kind |-> "detail",
        allMonth |-> allMonth,
        rows |-> [k \in 1..Len(filtered) |-> Row(moduleId, all, filtered, allMonth, filtered[k])]]

(***************************************************************************)
(* App: dashboard totals                                                   *)
(***************************************************************************)
\* the module total without the restriction to the module
getModuleTotal_everyModule(all, moduleId) == SignedSum(all, Len(all))

getModuleTotal(all, moduleId) ==
    LET own == Filter(all, LAMBDA t : t.moduleId = moduleId)
    IN SignedSum(own, Len(own))

\* the Saldo with asset records contributing nothing
grandTotal_assetIgnored(all) == SignedSum_assetIgnored(all, Len(all))

\* the Saldo of the navbar
grandTotal(all) == SignedSum(all, Len(all))

DashboardView(all) ==
    [kind |-> "dashboard",
     total |-> [m \in ModuleType |-> getModuleTotal(all, m)],
     saldo |-> grandTotal(all)]

NoView == [kind |-> "none"]

(***************************************************************************)
(* State outside the month view                                            *)
(***************************************************************************)
NoUser == "nobody"
Users == {"u1"}

\* new Date().toISOString().split('T')[0]
TodayISO == ISODate(2024, 1, 31)

\* the form as useState and resetForm leave it
ClosedForm ==
    [isFormOpen |-> FALSE, editingItem |-> None, title |-> <<>>, amount |-> <<>>,
     type |-> EXPENSE, date |-> TodayISO]

\* a parsed JSON document as far as AIAnalysisResult looks at it; an absent
\* member is None
Json(summary, tips, riskLevel) ==
    [kind |-> "object", summary |-> summary, tips |-> tips, riskLevel |-> riskLevel]
JsonNull == [kind |-> "null", summary |-> None, tips |-> None, riskLevel |-> None]

\* no getFinancialAdvice promise is awaited
NoCall == [state |-> "none", cause |-> "none", value |-> JsonNull]

\* what the bundle finds for process.env.API_KEY: a key, no key, or no
\* `process` object at all (vite.config.ts defines none)
Envs == {"key", "no key", "no process"}

\* the advice panel as useState leaves it, with the environment of the build
IdleAi == [aiLoading |-> FALSE, aiResult |-> None, call |-> NoCall, env |-> "key"]

\* React discards the state of ModuleDetail when App stops rendering it
Unmount ==
    /\ form' = ClosedForm
    /\ ai' = [IdleAi EXCEPT !.env = ai.env]
    /\ currentDate' = [year |-> 2024, month |-> 0]

\* a row of the transactions table
DbRow(t, userId) ==
    [id |-> t.id, user_id |-> userId, moduleId |-> t.moduleId, title |-> t.title,
     amount |-> t.amount, date |-> t.date, type |-> t.type]

\* u1 is signed in, the records are loaded, nothing is in flight
Loaded ==
    /\ session = "u1"
    /\ user = "u1"
    /\ isLoading = FALSE
    /\ db = [i \in DOMAIN transactions |-> DbRow(transactions[i], "u1")]
    /\ nextId = Len(transactions) + 1
    /\ inflight = <<>>
    /\ console = "none"
    /\ form = ClosedForm
    /\ ai = IdleAi

(***************************************************************************)
(* Actions                                                                 *)
(***************************************************************************)
\* App renders ModuleDetail when a module is active, the dashboard otherwise
Render ==
    /\ rendered = NoView
    /\ ~isLoading
    /\ user # NoUser
    /\ rendered' = IF activeModule # NoModule
                   THEN ModuleDetailView(transactions, activeModule, currentDate)
                   ELSE DashboardView(transactions)
    /\ UNCHANGED <<activeModule, currentDate, form, ai, storeVars>>

\* the month ModuleDetail opens on (new Date())
Today == [year |-> 2024, month |-> 0]

\* months between the month ModuleDetail opened on and date
MonthsFromToday(date) ==
    (getFullYear(date) - getFullYear(Today)) * 12 + getMonth(date) - getMonth(Today)

\* new Date(currentDate.getFullYear(), currentDate.getMonth() - 1, 1)
MonthBefore(date) == NewDate(getFullYear(date), getMonth(date) - 1)

\* new Date(currentDate.getFullYear(), currentDate.getMonth() + 1, 1)
MonthAfter(date) == NewDate(getFullYear(date), getMonth(date) + 1)

goToPreviousMonth ==
    /\ activeModule # NoModule
    /\ MonthsFromToday(currentDate) > 0 - MaxMonthSteps
    /\ currentDate' = MonthBefore(currentDate)
    /\ rendered' = NoView
    /\ UNCHANGED <<activeModule, form, ai, storeVars>>

\* mutant: moving to the next month drops the records of the other months
goToNextMonth_dropsOtherMonths ==
    /\ activeModule # NoModule
    /\ MonthsFromToday(currentDate) < MaxMonthSteps
    /\ currentDate' = MonthAfter(currentDate)
    /\ transactions' = SelectSeq(transactions, LAMBDA t : InSelectedMonth(t, currentDate'))
    /\ rendered' = NoView
    /\ UNCHANGED <<activeModule, form, ai, isLoading, user, session, db, nextId,
                   inflight, console>>

goToNextMonth ==
    /\ activeModule # NoModule
    /\ MonthsFromToday(currentDate) < MaxMonthSteps
    /\ currentDate' = MonthAfter(currentDate)
    /\ rendered' = NoView
    /\ UNCHANGED <<activeModule, form, ai, storeVars>>

(***************************************************************************)
(* App: the handlers up to their first await                               *)
(***************************************************************************)
\* a call in flight: the operation, how far it got, the user it is made
\* for, its argument and the reply of the collaborator
Call(op, stage, userId, arg) ==
    [op |-> op, stage |-> stage, userId |-> userId, arg |-> arg,
     reply |-> "pending", data |-> <<>>]

\* handleAddTransaction(t) up to `await supabase.auth.getUser()`
handleAddTransactionStart(t) ==
    inflight' = Append(inflight, Call("insert", "getUser", NoUser, <<t>>))

\* handleEditTransaction(updated) up to `await supabase.from(...).update(...)`
handleEditTransactionStart(updated) ==
    inflight' = Append(inflight, Call("update", "sent", NoUser, <<updated>>))

\* handleDeleteTransaction(id) up to `await supabase.from(...).delete()`
handleDeleteTransactionStart(t) ==
    inflight' = Append(inflight, Call("delete", "sent", NoUser, <<t>>))

\* ModuleDetail is on the screen
DetailMounted == ~isLoading /\ user # NoUser /\ activeModule # NoModule

\* the records listed in ModuleDetail
ListedRecords ==
    LET filtered == filteredTransactions(moduleTransactions(transactions, activeModule),
                                         currentDate)
    IN {filtered[k] : k \in DOMAIN filtered}

(***************************************************************************)
(* geminiService: getFinancialAdvice, and handleAiAnalysis of ModuleDetail *)
(***************************************************************************)
\* the result returned when no API key is configured
NoKeyResult ==
    Json(Some("API Key nao configurada no servidor."),
         Some(<<"Configure a variavel de ambiente API_KEY no painel do Netlify.",
                "Reinicie o deploy.", "Consulte a documentacao.">>),
         Some("Low"))

\* the result returned from the catch block
NeutralResult ==
    Json(Some("Nao foi possivel analisar os dados no momento."),
         Some(<<"Verifique sua conexao.", "Tente novamente mais tarde.",
                "Contate o suporte se o erro persistir.">>),
         Some("Low"))

\* response.text of the model: nothing, text that is no JSON, and JSON documents
ModelTexts ==
    {"", "Claro! Aqui esta", "null", "{}",
     "{summary, tips: [a, b, c], riskLevel: Medium}",
     "{summary, tips: [a, b], riskLevel: High}",
     "{summary, tips: [a, b, c], riskLevel: Alto}"}

\* JSON.parse(text): None when it throws
JSONparse(text) ==
    CASE text = "null" -> Some(JsonNull)
      [] text = "{}" -> Some(Json(None, None, None))
      [] text = "{summary, tips: [a, b, c], riskLevel: Medium}" ->
           Some(Json(Some("summary"), Some(<<"a", "b", "c">>), Some("Medium")))
      [] text = "{summary, tips: [a, b], riskLevel: High}" ->
           Some(Json(Some("summary"), Some(<<"a", "b">>), Some("High")))
      [] text = "{summary, tips: [a, b, c], riskLevel: Alto}" ->
           Some(Json(Some("summary"), Some(<<"a", "b", "c">>), Some("Alto")))
      [] OTHER -> None

\* getFinancialAdvice after `await ai.models.generateContent(...)`: the
\* call failed, or it answered with text
AfterGenerateContent(failed, text) ==
    IF failed \/ text = "" \/ JSONparse(text) = None
    THEN [state |-> "resolved", cause |-> "failure", value |-> NeutralResult]
    ELSE [state |-> "resolved", cause |-> "response", value |-> JSONparse(text)[1]]

\* getFinancialAdvice up to its first await or return
getFinancialAdviceStart(env) ==
    CASE env = "no process" -> [state |-> "rejected", cause |-> "no process", value |-> JsonNull]
      [] env = "no key" -> [state |-> "resolved", cause |-> "no key", value |-> NoKeyResult]
      [] env = "key" -> [state |-> "model", cause |-> "none", value |-> JsonNull]

\* the Gerar Analise button: handleAiAnalysis up to its await
handleAiAnalysis ==
    /\ DetailMounted
    /\ ~ai.aiLoading /\ ai.aiResult = None
    /\ ai' = [ai EXCEPT !.aiLoading = TRUE, !.aiResult = None,
                        !.call = getFinancialAdviceStart(ai.env)]
    /\ UNCHANGED <<activeModule, currentDate, form, rendered, storeVars>>

\* the model call settles and getFinancialAdvice runs to its return
generateContentSettles(failed, text) ==
    /\ ai.call.state = "model"
    /\ ai' = [ai EXCEPT !.call = AfterGenerateContent(failed, text)]
    /\ console' = IF ai'.call.cause = "failure" THEN "Error fetching AI advice:" ELSE console
    /\ UNCHANGED <<activeModule, currentDate, form, rendered, transactions, isLoading,
                   user, session, db, nextId, inflight>>

\* handleAiAnalysis after its await: setAiResult(result) or the catch block,
\* then finally
handleAiAnalysisDone ==
    /\ ai.call.state \in {"resolved", "rejected"}
    /\ ai' = [ai EXCEPT !.aiLoading = FALSE,
                        !.aiResult = IF ai.call.state = "rejected" \/ ai.call.value = JsonNull
                                     THEN ai.aiResult ELSE Some(ai.call.value),
                        !.call = NoCall]
    /\ console' = IF ai.call.state = "rejected" THEN "ReferenceError: process is not defined"
                  ELSE console
    /\ UNCHANGED <<activeModule, currentDate, form, rendered, transactions, isLoading,
                   user, session, db, nextId, inflight>>

(***************************************************************************)
(* ModuleDetail: the form                                                  *)
(***************************************************************************)
\* what the title and the amount inputs hold in SpecForm
TitleTexts == {<<>>, <<"a">>}
AmountTexts == {<<>>, <<"1">>, <<"-", "1">>}
DateTexts == {TodayISO, ISODate(2024, 2, 1)}

\* the Nova button: setEditingItem(null); setIsFormOpen(true); the effect on
\* editingItem resets the fields when editingItem was set
Nova ==
    /\ DetailMounted
    /\ form' = IF form.editingItem # None
               THEN [ClosedForm EXCEPT !.isFormOpen = TRUE]
               ELSE [form EXCEPT !.isFormOpen = TRUE]
    /\ UNCHANGED <<activeModule, currentDate, ai, rendered, storeVars>>

\* the edit button of a listed record: setEditingItem(t); the effect on
\* editingItem fills the fields and opens the form when editingItem changed
AfterEditClick(f, t) ==
    IF f.editingItem = Some(t) THEN f
    ELSE [isFormOpen |-> TRUE, editingItem |-> Some(t), title |-> t.title,
          amount |-> toString(t.amount), type |-> t.type, date |-> t.date]

EditClick(t) ==
    /\ DetailMounted
    /\ t \in ListedRecords
    /\ form' = AfterEditClick(form, t)
    /\ UNCHANGED <<activeModule, currentDate, ai, rendered, storeVars>>

\* the Cancelar button
Cancelar ==
    /\ DetailMounted
    /\ form.isFormOpen
    /\ form' = [form EXCEPT !.isFormOpen = FALSE]
    /\ UNCHANGED <<activeModule, currentDate, ai, rendered, storeVars>>

setTitle(v) ==
    /\ DetailMounted
    /\ form.isFormOpen
    /\ form' = [form EXCEPT !.title = v]
    /\ UNCHANGED <<activeModule, currentDate, ai, rendered, storeVars>>

setAmount(v) ==
    /\ DetailMounted
    /\ form.isFormOpen
    /\ form' = [form EXCEPT !.amount = v]
    /\ UNCHANGED <<activeModule, currentDate, ai, rendered, storeVars>>

setType(v) ==
    /\ DetailMounted
    /\ form.isFormOpen
    /\ form' = [form EXCEPT !.type = v]
    /\ UNCHANGED <<activeModule, currentDate, ai, rendered, storeVars>>

setDate(v) ==
    /\ DetailMounted
    /\ form.isFormOpen
    /\ form' = [form EXCEPT !.date = v]
    /\ UNCHANGED <<activeModule, currentDate, ai, rendered, storeVars>>

\* the payload handleSubmit builds from the fields
SubmitPayload ==
    [id |-> 0, moduleId |-> activeModule, title |-> form.title,
     amount |-> parseFloat(form.amount), type |-> form.type, date |-> form.date]

\* handleSubmit, with onEdit / onAdd run up to their first await
handleSubmit ==
    /\ DetailMounted
    /\ form.isFormOpen
    /\ IF form.title = <<>> \/ form.amount = <<>>
       THEN UNCHANGED <<form, inflight>>
       ELSE /\ IF form.editingItem # None
               THEN handleEditTransactionStart(
                      [SubmitPayload EXCEPT !.id = form.editingItem[1].id])
               ELSE handleAddTransactionStart(SubmitPayload)
            /\ form' = ClosedForm
    /\ UNCHANGED <<activeModule, currentDate, ai, rendered, transactions, isLoading,
                   user, session, db, nextId, console>>

(***************************************************************************)
(* The record store and the auth provider                                  *)
(***************************************************************************)
\* data.map(t => ({id: t.id, moduleId: t.module_id, ...}))
FromRow(row) ==
    [id |-> row.id, moduleId |-> row.moduleId, title |-> row.title,
     amount |-> row.amount, type |-> row.type, date |-> row.date]

\* an ISO date as a number that orders like the date
DateKey(date) ==
    LET parts == split(date, "-")
    IN Number(parts[1]) * 10000 + Number(parts[2]) * 100 + Number(parts[3])

RECURSIVE OrderByDateDesc(_)
\* .order('date', { ascending: false })
OrderByDateDesc(rows) ==
    IF rows = <<>> THEN <<>>
    ELSE LET rest == OrderByDateDesc(Tail(rows))
             later == SelectSeq(rest, LAMBDA r : DateKey(r.date) > DateKey(Head(rows).date))
             other == SelectSeq(rest, LAMBDA r : DateKey(r.date) <= DateKey(Head(rows).date))
         IN later \o <<Head(rows)>> \o other

\* .from('transactions').select('*').eq('user_id', userId).order('date', ...)
SelectRows(rows, userId) ==
    OrderByDateDesc(SelectSeq(rows, LAMBDA r : r.user_id = userId))

\* .update(payload).eq('id', updated.id)
UpdateRows(rows, updated) ==
    [k \in DOMAIN rows |->
       IF rows[k].id = updated.id THEN DbRow(updated, rows[k].user_id) ELSE rows[k]]

\* .delete().eq('id', id)
DeleteRows(rows, id) == SelectSeq(rows, LAMBDA r : r.id # id)

\* the reply to call i is written into the call
Replied(i, reply, data) ==
    [inflight EXCEPT ![i] = [@ EXCEPT !.stage = "replied", !.reply = reply, !.data = data]]

\* the store answers a select
StoreSelect(i) ==
    /\ i \in DOMAIN inflight
    /\ inflight[i].op = "select" /\ inflight[i].stage = "sent"
    /\ \/ inflight' = Replied(i, "ok", SelectRows(db, inflight[i].userId))
       \/ inflight' = Replied(i, "error", <<>>)
    /\ UNCHANGED <<transactions, activeModule, isLoading, user, currentDate, form, ai,
                   rendered, session, db, nextId, console>>

\* the store answers an insert(...).select().single(), assigning a fresh id
StoreInsert(i) ==
    /\ i \in DOMAIN inflight
    /\ inflight[i].op = "insert" /\ inflight[i].stage = "sent"
    /\ \/ /\ nextId <= MaxIds
          /\ LET row == DbRow([inflight[i].arg[1] EXCEPT !.id = nextId], inflight[i].userId)
             IN /\ db' = Append(db, row)
                /\ inflight' = Replied(i, "ok", <<row>>)
          /\ nextId' = nextId + 1
       \/ /\ inflight' = Replied(i, "error", <<>>)
          /\ UNCHANGED <<db, nextId>>
    /\ UNCHANGED <<transactions, activeModule, isLoading, user, currentDate, form, ai,
                   rendered, session, console>>

\* the store answers an update
StoreUpdate(i) ==
    /\ i \in DOMAIN inflight
    /\ inflight[i].op = "update" /\ inflight[i].stage = "sent"
    /\ \/ /\ db' = UpdateRows(db, inflight[i].arg[1])
          /\ inflight' = Replied(i, "ok", <<>>)
       \/ /\ inflight' = Replied(i, "error", <<>>)
          /\ UNCHANGED db
    /\ UNCHANGED <<transactions, activeModule, isLoading, user, currentDate, form, ai,
                   rendered, session, nextId, console>>

\* the store answers a delete
StoreDelete(i) ==
    /\ i \in DOMAIN inflight
    /\ inflight[i].op = "delete" /\ inflight[i].stage = "sent"
    /\ \/ /\ db' = DeleteRows(db, inflight[i].arg[1].id)
          /\ inflight' = Replied(i, "ok", <<>>)
       \/ /\ inflight' = Replied(i, "error", <<>>)
          /\ UNCHANGED db
    /\ UNCHANGED <<transactions, activeModule, isLoading, user, currentDate, form, ai,
                   rendered, session, nextId, console>>

(***************************************************************************)
(* App: auth, loading and the handlers after their awaits                  *)
(***************************************************************************)
\* fetchTransactions(userId) up to its await, pending being the other calls
fetchTransactionsStart(pending, userId) ==
    /\ isLoading' = TRUE
    /\ inflight' = Append(pending, Call("select", "sent", userId, <<>>))

\* supabase.auth.getSession().then(...)
getSessionThen(i) ==
    /\ i \in DOMAIN inflight
    /\ inflight[i].op = "getSession"
    /\ IF session # NoUser
       THEN /\ user' = session
            /\ fetchTransactionsStart(RemoveAt(inflight, i), session)
            /\ Unmount
       ELSE /\ isLoading' = FALSE
            /\ inflight' = RemoveAt(inflight, i)
            /\ UNCHANGED <<user, currentDate, form, ai>>
    /\ UNCHANGED <<transactions, activeModule, rendered, session, db, nextId, console>>

\* the auth provider changes or refreshes the session and the
\* onAuthStateChange callback runs
onAuthStateChange(s) ==
    /\ session' = s
    /\ IF s # NoUser
       THEN /\ user' = s
            /\ fetchTransactionsStart(inflight, s)
            /\ UNCHANGED transactions
       ELSE /\ user' = NoUser
            /\ transactions' = <<>>
            /\ isLoading' = FALSE
            /\ UNCHANGED inflight
    /\ Unmount
    /\ UNCHANGED <<activeModule, rendered, db, nextId, console>>

\* mutant: a failed fetch empties the list
fetchTransactionsSettled_errorClears(c, prev) ==
    IF c.reply = "error" THEN <<>> ELSE [k \in DOMAIN c.data |-> FromRow(c.data[k])]

\* the list fetchTransactions leaves: throw on error, else setTransactions(mappedData)
fetchTransactionsSettled(c, prev) ==
    IF c.reply = "error" THEN prev ELSE [k \in DOMAIN c.data |-> FromRow(c.data[k])]

\* mutant: setIsLoading(false) only on the success path, not in finally
fetchTransactionsDone_noFinally(i) ==
    /\ i \in DOMAIN inflight
    /\ inflight[i].op = "select" /\ inflight[i].stage = "replied"
    /\ transactions' = fetchTransactionsSettled(inflight[i], transactions)
    /\ console' = IF inflight[i].reply = "error" THEN "Error fetching transactions:"
                  ELSE console
    /\ isLoading' = IF inflight[i].reply = "error" THEN isLoading ELSE FALSE
    /\ inflight' = RemoveAt(inflight, i)
    /\ UNCHANGED <<activeModule, user, currentDate, form, ai, rendered, session, db, nextId>>

\* fetchTransactions after its await
fetchTransactionsDone(i) ==
    /\ i \in DOMAIN inflight
    /\ inflight[i].op = "select" /\ inflight[i].stage = "replied"
    /\ transactions' = fetchTransactionsSettled(inflight[i], transactions)
    /\ console' = IF inflight[i].reply = "error" THEN "Error fetching transactions:"
                  ELSE console
    /\ isLoading' = FALSE
    /\ inflight' = RemoveAt(inflight, i)
    /\ UNCHANGED <<activeModule, user, currentDate, form, ai, rendered, session, db, nextId>>

\* handleAddTransaction after `await supabase.auth.getUser()`
handleAddTransactionGotUser(i) ==
    /\ i \in DOMAIN inflight
    /\ inflight[i].op = "insert" /\ inflight[i].stage = "getUser"
    /\ \E u \in {session, NoUser} :
         inflight' = IF u = NoUser THEN RemoveAt(inflight, i)
                     ELSE [inflight EXCEPT ![i] = [@ EXCEPT !.stage = "sent", !.userId = u]]
    /\ UNCHANGED <<transactions, activeModule, isLoading, user, currentDate, form, ai,
                   rendered, session, db, nextId, console>>

\* the list handleAddTransaction leaves: setTransactions(prev => [newTransaction, ...prev])
handleAddTransactionSettled(c, prev) ==
    IF c.reply = "error" THEN prev ELSE <<FromRow(c.data[1])>> \o prev

\* handleAddTransaction after the insert
handleAddTransactionDone(i) ==
    /\ i \in DOMAIN inflight
    /\ inflight[i].op = "insert" /\ inflight[i].stage = "replied"
    /\ transactions' = handleAddTransactionSettled(inflight[i], transactions)
    /\ console' = IF inflight[i].reply = "error" THEN "Error adding transaction:"
                  ELSE console
    /\ inflight' = RemoveAt(inflight, i)
    /\ UNCHANGED <<activeModule, isLoading, user, currentDate, form, ai, rendered,
                   session, db, nextId>>

\* the list handleEditTransaction leaves:
\* setTransactions(prev => prev.map(t => t.id === updated.id ? updated : t))
handleEditTransactionSettled(c, prev) ==
    IF c.reply = "error" THEN prev
    ELSE [k \in DOMAIN prev |-> IF prev[k].id = c.arg[1].id THEN c.arg[1] ELSE prev[k]]

\* handleEditTransaction after the update
handleEditTransactionDone(i) ==
    /\ i \in DOMAIN inflight
    /\ inflight[i].op = "update" /\ inflight[i].stage = "replied"
    /\ transactions' = handleEditTransactionSettled(inflight[i], transactions)
    /\ console' = IF inflight[i].reply = "error" THEN "Error updating transaction:"
                  ELSE console
    /\ inflight' = RemoveAt(inflight, i)
    /\ UNCHANGED <<activeModule, isLoading, user, currentDate, form, ai, rendered,
                   session, db, nextId>>

\* the list handleDeleteTransaction leaves: setTransactions(prev => prev.filter(t => t.id !== id))
handleDeleteTransactionSettled(c, prev) ==
    IF c.reply = "error" THEN prev
    ELSE SelectSeq(prev, LAMBDA t : t.id # c.arg[1].id)

\* handleDeleteTransaction after the delete
handleDeleteTransactionDone(i) ==
    /\ i \in DOMAIN inflight
    /\ inflight[i].op = "delete" /\ inflight[i].stage = "replied"
    /\ transactions' = handleDeleteTransactionSettled(inflight[i], transactions)
    /\ console' = IF inflight[i].reply = "error" THEN "Error deleting transaction:"
                  ELSE console
    /\ inflight' = RemoveAt(inflight, i)
    /\ UNCHANGED <<activeModule, isLoading, user, currentDate, form, ai, rendered,
                   session, db, nextId>>

\* a module card of the dashboard: setActiveModule(module.id)
SelectModule(m) ==
    /\ ~isLoading /\ user # NoUser /\ activeModule = NoModule
    /\ activeModule' = m
    /\ UNCHANGED <<currentDate, form, ai, rendered, storeVars>>

\* onBack: setActiveModule(null)
onBack ==
    /\ DetailMounted
    /\ activeModule' = NoModule
    /\ Unmount
    /\ UNCHANGED <<rendered, storeVars>>

\* ModuleDetail calls onAdd(t)
onAdd(t) ==
    /\ DetailMounted
    /\ handleAddTransactionStart(t)
    /\ UNCHANGED <<transactions, activeModule, isLoading, user, currentDate, form, ai,
                   rendered, session, db, nextId, console>>

\* ModuleDetail calls onEdit(updated) for a listed record
onEdit(updated) ==
    /\ DetailMounted
    /\ \E t \in ListedRecords : t.id = updated.id
    /\ handleEditTransactionStart(updated)
    /\ UNCHANGED <<transactions, activeModule, isLoading, user, currentDate, form, ai,
                   rendered, session, db, nextId, console>>

\* the delete button of a listed record: onDelete(t.id)
onDelete(t) ==
    /\ DetailMounted
    /\ t \in ListedRecords
    /\ handleDeleteTransactionStart(t)
    /\ UNCHANGED <<transactions, activeModule, isLoading, user, currentDate, form, ai,
                   rendered, session, db, nextId, console>>

(***************************************************************************)
(* ChartSection: processedData                                             *)
(***************************************************************************)
RECURSIVE sortedData(_)
\* [...data].sort((a, b) => new Date(a.date).getTime() - new Date(b.date).getTime()),
\* a stable sort; DateKey orders as getTime() does
sortedData(data) ==
    IF data = <<>> THEN <<>>
    ELSE LET rest == sortedData(Tail(data))
             earlier == SelectSeq(rest, LAMBDA r : DateKey(r.date) < DateKey(Head(data).date))
             other == SelectSeq(rest, LAMBDA r : DateKey(r.date) >= DateKey(Head(data).date))
         IN earlier \o <<Head(data)>> \o other

\* grouped[key] = (grouped[key] || 0) + amount, the properties kept in the
\* order of their creation
AddToGroup(grouped, key, amount) ==
    IF \E k \in DOMAIN grouped : grouped[k].name = key
    THEN [k \in DOMAIN grouped |->
            IF grouped[k].name = key
            THEN [name |-> key, value |-> grouped[k].value + amount]
            ELSE grouped[k]]
    ELSE Append(grouped, [name |-> key, value |-> amount])

RECURSIVE GroupByDay(_, _)
\* sortedData.forEach(t => ...) with key = the day part of t.date
GroupByDay(sorted, grouped) ==
    IF sorted = <<>> THEN grouped
    ELSE GroupByDay(Tail(sorted),
                    AddToGroup(grouped, split(Head(sorted).date, "-")[3], Head(sorted).amount))

\* a property name that is an array index: the canonical decimal form of a number
IsArrayIndex(key) == key = toString(Number(key))

RECURSIVE AscendingIndex(_)
\* properties with array-index names in ascending numeric order
AscendingIndex(props) ==
    IF props = <<>> THEN <<>>
    ELSE LET rest == AscendingIndex(Tail(props))
             lower == SelectSeq(rest, LAMBDA q : Number(q.name) < Number(Head(props).name))
             other == SelectSeq(rest, LAMBDA q : Number(q.name) >= Number(Head(props).name))
         IN lower \o <<Head(props)>> \o other

\* Object.entries(grouped): own property order of the language, array-index
\* names first in ascending numeric order, then the other names in the
\* order of their creation
ObjectEntries(grouped) ==
    AscendingIndex(SelectSeq(grouped, LAMBDA q : IsArrayIndex(q.name)))
      \o SelectSeq(grouped, LAMBDA q : ~IsArrayIndex(q.name))

\* processedData of ChartSection
processedData(data) == ObjectEntries(GroupByDay(sortedData(data), <<>>))

\* ModuleDetail renders ChartSection with data = filteredTransactions
RenderChart ==
    /\ rendered = NoView
    /\ DetailMounted
    /\ rendered' =
         [kind |-> "chart",
          bars |-> processedData(
                     filteredTransactions(moduleTransactions(transactions, activeModule),
                                          currentDate))]
    /\ UNCHANGED <<activeModule, currentDate, form, ai, storeVars>>

(***************************************************************************)
(* Record lists                                                            *)
(***************************************************************************)
SeqsUpTo(S, n) == UNION {[1..k -> S] : k \in 0..n}

\* the record store gives every record its own id
WithIds(s) ==
    [i \in 1..Len(s) |->
       [id |-> i, moduleId |-> s[i].moduleId, title |-> s[i].title,
        amount |-> s[i].amount, date |-> s[i].date, type |-> s[i].type]]

RecordLists(mods, titles, amounts, dates, types, n) ==
    {WithIds(s) : s \in SeqsUpTo([moduleId : mods, title : titles, amount : amounts,
                                   date : dates, type : types], n)}

(***************************************************************************)
(* SpecMatch: title/month matching of getProjectionData and                *)
(* getRealizationData over every short record list                         *)
(***************************************************************************)
InitMatch ==
    /\ transactions \in RecordLists({BUDGET, TRAVEL, PROJECTION}, {<<"a">>, <<"b">>},
                                     {1, 2},
                                     {ISODate(2024, 1, 31), ISODate(2024, 2, 1)},
                                     {EXPENSE}, MaxMatchRecords)
    /\ activeModule \in {BUDGET, PROJECTION}
    /\ currentDate = Today
    /\ rendered = NoView
    /\ Loaded

NextMatch == Render

SpecMatch == InitMatch /\ [][NextMatch]_vars

(***************************************************************************)
(* SpecGoal: goal against total (isOver, percentage) for one title in one  *)
(* month, amounts from -1 (the amount input accepts a sign) to MaxAmount   *)
(***************************************************************************)
InitGoal ==
    /\ transactions \in RecordLists({BUDGET, PROJECTION}, {<<"a">>},
                                     (0 - 1)..MaxAmount, {ISODate(2024, 1, 31)},
                                     {EXPENSE}, MaxGoalRecords)
    /\ activeModule \in {BUDGET, PROJECTION}
    /\ currentDate = Today
    /\ rendered = NoView
    /\ Loaded

NextGoal == Render

SpecGoal == InitGoal /\ [][NextGoal]_vars

(***************************************************************************)
(* SpecTotals: the dashboard over record lists of every module and kind    *)
(***************************************************************************)
InitTotals ==
    /\ transactions \in RecordLists(ModuleType, {<<"a">>}, {1, 2},
                                     {ISODate(2024, 1, 31)}, TransactionType,
                                     MaxTotalRecords)
    /\ activeModule = NoModule
    /\ currentDate = Today
    /\ rendered = NoView
    /\ Loaded

NextTotals == Render

SpecTotals == InitTotals /\ [][NextTotals]_vars

(***************************************************************************)
(* SpecMonth: the month view moving over the months, records of several    *)
(* days, months and years                                                  *)
(***************************************************************************)
\* (year, month, day) of the dates of SpecMonth
MonthDays ==
    {<<2024, 1, 31>>, <<2024, 1, 1>>, <<2024, 2, 1>>, <<2023, 1, 31>>, <<2023, 12, 31>>}

InitMonth ==
    /\ transactions \in RecordLists({BUDGET, TRAVEL}, {<<"a">>}, {1},
                                     {ISODate(ymd[1], ymd[2], ymd[3]) : ymd \in MonthDays},
                                     {EXPENSE}, MaxMonthRecords)
    /\ activeModule \in {BUDGET, TRAVEL}
    /\ currentDate = Today
    /\ rendered = NoView
    /\ Loaded

NextMonth ==
    \/ Render
    \/ goToPreviousMonth
    \/ goToNextMonth

SpecMonth == InitMonth /\ [][NextMonth]_vars

(***************************************************************************)
(* SpecTitle: titles that differ in case, in surrounding and in inner      *)
(* blanks, in one month                                                    *)
(***************************************************************************)
TitleVariants ==
    {<<"a">>, <<"A", " ">>, <<" ", "a">>, <<"b">>, <<"a", " ", "b">>, <<"A", "b">>}

InitTitle ==
    /\ transactions \in RecordLists({BUDGET, PROJECTION}, TitleVariants, {1},
                                     {ISODate(2024, 1, 31)}, {EXPENSE}, MaxTitleRecords)
    /\ activeModule \in {BUDGET, PROJECTION}
    /\ currentDate = Today
    /\ rendered = NoView
    /\ Loaded

NextTitle == Render

SpecTitle == InitTitle /\ [][NextTitle]_vars

(***************************************************************************)
(* SpecReverse: the projection module listing its goals against the        *)
(* records of the other modules                                            *)
(***************************************************************************)
InitReverse ==
    /\ transactions \in RecordLists({BUDGET, TRAVEL, PROJECTION}, {<<"a">>, <<"b">>},
                                     {1, 2},
                                     {ISODate(2024, 1, 31), ISODate(2024, 2, 1)},
                                     {EXPENSE}, MaxReverseRecords)
    /\ activeModule = PROJECTION
    /\ currentDate = Today
    /\ rendered = NoView
    /\ Loaded

NextReverse == Render

SpecReverse == InitReverse /\ [][NextReverse]_vars

(***************************************************************************)
(* SpecForm: the form of ModuleDetail in the budget module                 *)
(***************************************************************************)
InitForm ==
    /\ transactions \in RecordLists({BUDGET}, {<<"a">>}, {2}, {TodayISO},
                                     {INCOME, ASSET}, MaxFormRecords)
    /\ activeModule = BUDGET
    /\ currentDate = Today
    /\ rendered = NoView
    /\ Loaded

NextForm ==
    \/ Nova
    \/ \E t \in ListedRecords : EditClick(t)
    \/ Cancelar
    \/ \E v \in TitleTexts : setTitle(v)
    \/ \E v \in AmountTexts : setAmount(v)
    \/ \E v \in {EXPENSE, INCOME} : setType(v)
    \/ \E v \in DateTexts : setDate(v)
    \/ Len(inflight) < MaxInflight /\ handleSubmit

SpecForm == InitForm /\ [][NextForm]_vars

(***************************************************************************)
(* SpecApp: App from construction on, with the store and the auth provider *)
(***************************************************************************)
\* the dates and the records the handlers are called with in SpecApp
AppPayloads ==
    {[id |-> 0, moduleId |-> BUDGET, title |-> <<"a">>, amount |-> 1, type |-> EXPENSE,
      date |-> TodayISO]}
AppAmounts == {2}

InitApp ==
    /\ user = NoUser
    /\ activeModule = NoModule
    /\ transactions = <<>>
    /\ isLoading = TRUE
    /\ session \in Users \cup {NoUser}
    /\ db = <<>>
    /\ nextId = 1
    /\ inflight = <<Call("getSession", "sent", NoUser, <<>>)>>
    /\ console = "none"
    /\ currentDate = Today
    /\ form = ClosedForm
    /\ ai = IdleAi
    /\ rendered = NoView

NextApp ==
    \/ \E i \in DOMAIN inflight : getSessionThen(i)
    \/ \E s \in Users \cup {NoUser} :
         (s = NoUser \/ Len(inflight) < MaxInflight) /\ onAuthStateChange(s)
    \/ \E i \in DOMAIN inflight : StoreSelect(i)
    \/ \E i \in DOMAIN inflight : StoreInsert(i)
    \/ \E i \in DOMAIN inflight : StoreUpdate(i)
    \/ \E i \in DOMAIN inflight : StoreDelete(i)
    \/ \E i \in DOMAIN inflight : fetchTransactionsDone(i)
    \/ \E i \in DOMAIN inflight : handleAddTransactionGotUser(i)
    \/ \E i \in DOMAIN inflight : handleAddTransactionDone(i)
    \/ \E i \in DOMAIN inflight : handleEditTransactionDone(i)
    \/ \E i \in DOMAIN inflight : handleDeleteTransactionDone(i)
    \/ SelectModule(BUDGET)
    \/ onBack
    \/ \E t \in AppPayloads : Len(inflight) < MaxInflight /\ onAdd(t)
    \/ \E t \in ListedRecords, a \in AppAmounts :
         Len(inflight) < MaxInflight /\ onEdit([t EXCEPT !.amount = a])
    \/ \E t \in ListedRecords : Len(inflight) < MaxInflight /\ onDelete(t)

SpecApp == InitApp /\ [][NextApp]_vars

(***************************************************************************)
(* SpecStore: App from construction on, with fewer calls in flight         *)
(***************************************************************************)
InitStore == InitApp

NextStore ==
    \/ \E i \in DOMAIN inflight : getSessionThen(i)
    \/ \E s \in Users \cup {NoUser} :
         (s = NoUser \/ Len(inflight) < MaxStoreCalls) /\ onAuthStateChange(s)
    \/ \E i \in DOMAIN inflight : StoreSelect(i)
    \/ \E i \in DOMAIN inflight : StoreInsert(i)
    \/ \E i \in DOMAIN inflight : StoreUpdate(i)
    \/ \E i \in DOMAIN inflight : StoreDelete(i)
    \/ \E i \in DOMAIN inflight : fetchTransactionsDone(i)
    \/ \E i \in DOMAIN inflight : handleAddTransactionGotUser(i)
    \/ \E i \in DOMAIN inflight : handleAddTransactionDone(i)
    \/ \E i \in DOMAIN inflight : handleEditTransactionDone(i)
    \/ \E i \in DOMAIN inflight : handleDeleteTransactionDone(i)
    \/ SelectModule(BUDGET)
    \/ onBack
    \/ \E t \in AppPayloads : Len(inflight) < MaxStoreCalls /\ onAdd(t)
    \/ \E t \in ListedRecords, a \in AppAmounts :
         Len(inflight) < MaxStoreCalls /\ onEdit([t EXCEPT !.amount = a])
    \/ \E t \in ListedRecords : Len(inflight) < MaxStoreCalls /\ onDelete(t)

SpecStore == InitStore /\ [][NextStore]_vars

(***************************************************************************)
(* SpecAdvice: the advice panel of ModuleDetail                            *)
(***************************************************************************)
InitAdvice ==
    /\ transactions \in RecordLists({BUDGET}, {<<"a">>}, {1}, {TodayISO}, {EXPENSE}, 1)
    /\ activeModule = NoModule
    /\ currentDate = Today
    /\ rendered = NoView
    /\ session = "u1" /\ user = "u1" /\ isLoading = FALSE
    /\ db = [i \in DOMAIN transactions |-> DbRow(transactions[i], "u1")]
    /\ nextId = Len(transactions) + 1
    /\ inflight = <<>>
    /\ console = "none"
    /\ form = ClosedForm
    /\ ai \in {[IdleAi EXCEPT !.env = e] : e \in Envs}

NextAdvice ==
    \/ \E m \in ModuleType : SelectModule(m)
    \/ onBack
    \/ handleAiAnalysis
    \/ \E text \in ModelTexts : generateContentSettles(FALSE, text)
    \/ generateContentSettles(TRUE, "")
    \/ handleAiAnalysisDone

SpecAdvice == InitAdvice /\ [][NextAdvice]_vars

(***************************************************************************)
(* SpecChart: the chart of the month over every short record list          *)
(***************************************************************************)
\* the days of January 2024 the records of SpecChart fall on
ChartDays == {1, 9, 10, 31}

InitChart ==
    /\ transactions \in RecordLists({BUDGET}, {<<"a">>}, {1, 2},
                                     {ISODate(2024, 1, d) : d \in ChartDays},
                                     {EXPENSE}, MaxChartRecords)
    /\ activeModule = BUDGET
    /\ currentDate = Today
    /\ rendered = NoView
    /\ Loaded

NextChart == RenderChart

SpecChart == InitChart /\ [][NextChart]_vars

(***************************************************************************)
(* SpecLoad: the session check and the loads of App, every started call    *)
(* being settled in the end                                                *)
(***************************************************************************)
InitLoad ==
    /\ user = NoUser
    /\ activeModule = NoModule
    /\ transactions = <<>>
    /\ isLoading = TRUE
    /\ session \in Users \cup {NoUser}
    /\ \E list \in RecordLists({BUDGET}, {<<"a">>}, {1}, {TodayISO}, {EXPENSE}, 1) :
         /\ db = [i \in DOMAIN list |-> DbRow(list[i], "u1")]
         /\ nextId = Len(list) + 1
    /\ inflight = <<Call("getSession", "sent", NoUser, <<>>)>>
    /\ console = "none"
    /\ currentDate = Today
    /\ form = ClosedForm
    /\ ai = IdleAi
    /\ rendered = NoView

\* the session check resolves
SessionSettles == \E i \in DOMAIN inflight : getSessionThen(i)

\* the store answers a fetch
FetchAnswered == \E i \in DOMAIN inflight : StoreSelect(i)

\* an answered fetch runs to its end
FetchReturns == \E i \in DOMAIN inflight : fetchTransactionsDone(i)

\* the auth provider reports a session, a refreshed session or a sign-out
AuthEvent ==
    \E s \in Users \cup {NoUser} :
      (s = NoUser \/ Len(inflight) < MaxInflight) /\ onAuthStateChange(s)

NextLoad ==
    \/ SessionSettles
    \/ AuthEvent
    \/ FetchAnswered
    \/ FetchReturns

SpecLoad ==
    /\ InitLoad /\ [][NextLoad]_vars
    /\ WF_vars(SessionSettles) /\ WF_vars(FetchAnswered) /\ WF_vars(FetchReturns)

(***************************************************************************)
(* SpecFrame: every handler of App and ModuleDetail, one store call at a   *)
(* time, from a loaded list                                                *)
(***************************************************************************)
InitFrame ==
    /\ transactions \in RecordLists({BUDGET}, {<<"a">>}, {1}, {TodayISO}, {EXPENSE}, 1)
    /\ activeModule = BUDGET
    /\ currentDate = Today
    /\ rendered = NoView
    /\ Loaded

\* no call is in flight
Quiet == inflight = <<>>

NextFrame ==
    \/ SelectModule(BUDGET)
    \/ onBack
    \/ MonthsFromToday(currentDate) > 0 - MaxFrameMonths /\ goToPreviousMonth
    \/ MonthsFromToday(currentDate) < MaxFrameMonths /\ goToNextMonth
    \/ Render
    \/ Nova
    \/ \E t \in ListedRecords : EditClick(t)
    \/ Cancelar
    \/ setTitle(<<"a">>)
    \/ setAmount(<<"1">>)
    \/ Quiet /\ handleSubmit
    \/ \E t \in ListedRecords : Quiet /\ onDelete(t)
    \/ handleAiAnalysis
    \/ generateContentSettles(FALSE, "{summary, tips: [a, b, c], riskLevel: Medium}")
    \/ handleAiAnalysisDone
    \/ \E s \in Users \cup {NoUser} : (s = NoUser \/ Quiet) /\ onAuthStateChange(s)
    \/ \E i \in DOMAIN inflight : StoreSelect(i)
    \/ \E i \in DOMAIN inflight : StoreInsert(i)
    \/ \E i \in DOMAIN inflight : StoreUpdate(i)
    \/ \E i \in DOMAIN inflight : StoreDelete(i)
    \/ \E i \in DOMAIN inflight : fetchTransactionsDone(i)
    \/ \E i \in DOMAIN inflight : handleAddTransactionGotUser(i)
    \/ \E i \in DOMAIN inflight : handleAddTransactionDone(i)
    \/ \E i \in DOMAIN inflight : handleEditTransactionDone(i)
    \/ \E i \in DOMAIN inflight : handleDeleteTransactionDone(i)

SpecFrame == InitFrame /\ [][NextFrame]_vars

(***************************************************************************)
(* Vocabulary of the properties                                            *)
(***************************************************************************)
\* (year, month) read from the fixed columns of YYYY-MM-DD
YearMonth(t) == <<Number(SubSeq(t.date, 1, 4)), Number(SubSeq(t.date, 6, 7))>>

SelectedYearMonth == <<getFullYear(currentDate), getMonth(currentDate) + 1>>

SameTitle(a, b) == normalize(a) = normalize(b)

RECURSIVE AmountOver(_)
\* the sum of amount over a set of positions of transactions
AmountOver(I) ==
    IF I = {} THEN 0
    ELSE LET i == CHOOSE x \in I : TRUE IN transactions[i].amount + AmountOver(I \ {i})

Reverse(s) == [i \in 1..Len(s) |-> s[Len(s) + 1 - i]]

DetailShown == rendered.kind = "detail"
ForwardShown == DetailShown /\ activeModule # PROJECTION
ReverseShown == DetailShown /\ activeModule = PROJECTION

\* positions of the projection records whose normalized title is that of title
ProjectionsTitled(title) ==
    {i \in DOMAIN transactions :
       transactions[i].moduleId = PROJECTION /\ SameTitle(transactions[i].title, title)}

(***************************************************************************)
(* C1 .. C3 (SpecMatch)                                                    *)
(***************************************************************************)
\* C1: for every record M listed in a non-projection module that has a
\* matching projection, currentTotal is the sum of amount over all records
\* of M's module and M's calendar month whose normalized title equals M's,
\* and the same total is reported when the record list is in reverse order.
C1_CurrentTotalSumsAllSameTitle ==
    ForwardShown =>
      \A k \in DOMAIN rendered.rows :
        LET M == rendered.rows[k].t
            data == rendered.rows[k].data
            rev == Reverse(transactions)
            revData == getProjectionData(activeModule, rev,
                         filteredTransactions(moduleTransactions(rev, activeModule), currentDate),
                         M.title)
        IN data # None =>
             /\ data[1].currentTotal =
                  AmountOver({i \in DOMAIN transactions :
                                /\ transactions[i].moduleId = M.moduleId
                                /\ YearMonth(transactions[i]) = YearMonth(M)
                                /\ SameTitle(transactions[i].title, M.title)})
             /\ revData # None
             /\ revData[1].currentTotal = data[1].currentTotal

\* two listed records of one title, of amounts 1 and 2, both report 3, while
\* the projection itself has the same title
C1_Witness ==
    /\ ForwardShown
    /\ \E k1, k2 \in DOMAIN rendered.rows :
         /\ rendered.rows[k1].t.amount = 1
         /\ rendered.rows[k2].t.amount = 2
         /\ SameTitle(rendered.rows[k1].t.title, rendered.rows[k2].t.title)
         /\ rendered.rows[k1].data # None
         /\ rendered.rows[k2].data # None
         /\ rendered.rows[k1].data[1].currentTotal = 3
         /\ rendered.rows[k2].data[1].currentTotal = 3

\* C2: in getProjectionData only a projection of the selected month with the
\* matching normalized title is the source of goalAmount, and without such a
\* projection the result is absent.
C2_GoalOnlyFromSameMonthProjection ==
    ForwardShown =>
      \A k \in DOMAIN rendered.rows :
        LET M == rendered.rows[k].t
            data == rendered.rows[k].data
            sameMonth == {i \in ProjectionsTitled(M.title) :
                            YearMonth(transactions[i]) = SelectedYearMonth}
        IN IF sameMonth = {} THEN data = None
           ELSE /\ data # None
                /\ \E i \in sameMonth : data[1].goalAmount = transactions[i].amount

C4_IsOverIffStrictlyGreater ==
    DetailShown =>
      \A k \in DOMAIN rendered.rows :
        LET data == rendered.rows[k].data IN
        data # None =>
          /\ data[1].isOver = (data[1].currentTotal > data[1].goalAmount)
          /\ data[1].currentTotal = data[1].goalAmount => data[1].isOver = FALSE

\* a projection listed in the projection module whose realized total equals
\* its positive goal, and is not over
C4_Witness ==
    /\ ReverseShown
    /\ \E k \in DOMAIN rendered.rows :
         /\ rendered.rows[k].data # None
         /\ rendered.rows[k].data[1].goalAmount = 2
         /\ rendered.rows[k].data[1].currentTotal = 2
         /\ rendered.rows[k].data[1].isOver = FALSE

\* C5: with a goalAmount of 0 the percentage of a listed record is 0 and
\* the rounded label is a finite number: no displayed percentage comes from
\* a division by zero.
C5_ZeroGoalIsSpecialCased ==
    DetailShown =>
      \A k \in DOMAIN rendered.rows :
        LET row == rendered.rows[k] IN
        (row.data # None /\ row.data[1].goalAmount = 0) =>
          /\ row.percentage.kind = "finite"
          /\ row.percentage.n = 0
          /\ row.label[1].kind = "finite"

\* C6: for a non-negative currentTotal and a positive goalAmount the
\* percentage of a listed record is a number in [0, 100], and it is exactly
\* 100 whenever currentTotal >= goalAmount.
C6_PercentageWithinBounds ==
    DetailShown =>
      \A k \in DOMAIN rendered.rows :
        LET row == rendered.rows[k] IN
        (row.data # None /\ row.data[1].currentTotal >= 0 /\ row.data[1].goalAmount > 0) =>
          /\ row.percentage.kind = "finite"
          /\ row.percentage.d > 0
          /\ 0 <= row.percentage.n
          /\ row.percentage.n <= 100 * row.percentage.d
          /\ (row.data[1].currentTotal >= row.data[1].goalAmount)
               => row.percentage.n = 100 * row.percentage.d
          /\ (row.data[1].currentTotal < row.data[1].goalAmount)
               => row.percentage.n * row.data[1].goalAmount
                    = 100 * row.data[1].currentTotal * row.percentage.d

\* a listed record whose total is above its positive goal, shown as 100
C6_Witness ==
    /\ ForwardShown
    /\ \E k \in DOMAIN rendered.rows :
         /\ rendered.rows[k].data # None
         /\ rendered.rows[k].data[1].goalAmount = 1
         /\ rendered.rows[k].data[1].currentTotal > 1
         /\ rendered.rows[k].percentage = Fin(100, 1)

(***************************************************************************)
(* C7 .. C9 (SpecTotals)                                                   *)
(***************************************************************************)
DashboardShown == rendered.kind = "dashboard"

\* C7 as stated: a record list with an asset record r has the module total of
\* r's module, and the grand total, of the list without r.
C7_AssetLeavesTotals ==
    DashboardShown =>
      \A i \in DOMAIN transactions :
        LET r == transactions[i]
            without == RemoveAt(transactions, i)
        IN r.type = ASSET =>
             /\ rendered.total[r.moduleId] = getModuleTotal(without, r.moduleId)
             /\ rendered.saldo = grandTotal(without)

\* C7 amended: an asset record r lowers the module total of r's module, and
\* the grand total, by r.amount (it is subtracted like an expense); the
\* totals of the other modules are those of the list without r.
C7_AssetLowersTotals ==
    DashboardShown =>
      \A i \in DOMAIN transactions :
        LET r == transactions[i]
            without == RemoveAt(transactions, i)
        IN r.type = ASSET =>
             /\ rendered.total[r.moduleId] = getModuleTotal(without, r.moduleId) - r.amount
             /\ rendered.saldo = grandTotal(without) - r.amount
             /\ \A m \in ModuleType \ {r.moduleId} :
                  rendered.total[m] = getModuleTotal(without, m)

\* an income of 2, an expense of 1 and an asset of 2 in one module: total -1
C7_Witness ==
    /\ DashboardShown
    /\ \E i, j, k \in DOMAIN transactions :
         /\ transactions[i].type = INCOME /\ transactions[i].amount = 2
         /\ transactions[j].type = EXPENSE /\ transactions[j].amount = 1
         /\ transactions[k].type = ASSET /\ transactions[k].amount = 2
         /\ transactions[i].moduleId = transactions[k].moduleId
         /\ transactions[j].moduleId = transactions[k].moduleId
         /\ rendered.total[transactions[k].moduleId] = 0 - 1

\* C8: over a list of income and expense records only, the total of a
\* module is the sum of its income amounts minus the sum of its expense
\* amounts; records of other modules do not count.
C8_ModuleTotalIsIncomeMinusExpense ==
    (DashboardShown /\ \A i \in DOMAIN transactions : transactions[i].type # ASSET) =>
      \A m \in ModuleType :
        rendered.total[m] =
          AmountOver({i \in DOMAIN transactions :
                        transactions[i].moduleId = m /\ transactions[i].type = INCOME})
          - AmountOver({i \in DOMAIN transactions :
                          transactions[i].moduleId = m /\ transactions[i].type = EXPENSE})

\* one income of 2 and one expense of 1 in a module, a record of another
\* module beside them: the module total is 1
C8_Witness ==
    /\ DashboardShown
    /\ \A i \in DOMAIN transactions : transactions[i].type # ASSET
    /\ \E i, j, k \in DOMAIN transactions :
         /\ transactions[i].type = INCOME /\ transactions[i].amount = 2
         /\ transactions[j].type = EXPENSE /\ transactions[j].amount = 1
         /\ transactions[i].moduleId = transactions[j].moduleId
         /\ transactions[k].moduleId # transactions[i].moduleId
         /\ rendered.total[transactions[i].moduleId] = 1

\* C9: the grand total equals the sum of the four module totals.
C9_GrandTotalIsSumOfModuleTotals ==
    DashboardShown =>
      rendered.saldo = rendered.total[BUDGET] + rendered.total[TRAVEL]
                         + rendered.total[INVESTMENT] + rendered.total[PROJECTION]

\* records of three different modules, an asset among them
C9_Witness ==
    /\ DashboardShown
    /\ \E i, j, k \in DOMAIN transactions :
         /\ transactions[i].moduleId # transactions[j].moduleId
         /\ transactions[i].moduleId # transactions[k].moduleId
         /\ transactions[j].moduleId # transactions[k].moduleId
         /\ transactions[i].type = ASSET
         /\ transactions[j].type = INCOME
    /\ rendered.saldo # 0

(***************************************************************************)
(* C10 (SpecMonth)                                                         *)
(***************************************************************************)
Listed(view) == {view[k].id : k \in DOMAIN view}

\* C10: a record dated ISODate(y, m, d) is listed by the module-level filter
\* (when it is of the active module) and by the all-modules filter exactly
\* when y and m are the selected year and month, whatever the day d.
C10_MonthFilterByYearAndMonth ==
    DetailShown =>
      \A i \in DOMAIN transactions : \A ymd \in MonthDays :
        LET t == transactions[i]
            selected == /\ ymd[1] = getFullYear(currentDate)
                        /\ ymd[2] = getMonth(currentDate) + 1
        IN t.date = ISODate(ymd[1], ymd[2], ymd[3]) =>
             /\ (t.id \in Listed(rendered.allMonth)) <=> selected
             /\ (t.id \in {rendered.rows[k].t.id : k \in DOMAIN rendered.rows})
                  <=> (selected /\ t.moduleId = activeModule)

\* January 2023 is selected: a record of 2023-01-31 is listed and one of
\* 2024-01-31 of the same module is not
C10_Witness ==
    /\ DetailShown
    /\ currentDate = [year |-> 2023, month |-> 0]
    /\ \E i, j \in DOMAIN transactions :
         /\ transactions[i].date = ISODate(2023, 1, 31)
         /\ transactions[j].date = ISODate(2024, 1, 31)
         /\ transactions[i].moduleId = activeModule
         /\ transactions[j].moduleId = activeModule
         /\ \E k \in DOMAIN rendered.rows : rendered.rows[k].t.id = transactions[i].id
         /\ \A k \in DOMAIN rendered.rows : rendered.rows[k].t.id # transactions[j].id

(***************************************************************************)
(* C11 (SpecTitle)                                                         *)
(***************************************************************************)
\* the same letter in either case
SameLetter(c, d) ==
    \/ c = d
    \/ {c, d} = {"a", "A"}
    \/ {c, d} = {"b", "B"}

\* a and b differ at most in letter case and in blanks before and after
SameGoalTitle(a, b) ==
    \E fa, fb \in 1..4 : \E la, lb \in 0..3 :
      /\ la <= Len(a) /\ lb <= Len(b)
      /\ la - fa = lb - fb
      /\ \A i \in 1..Len(a) : (i < fa \/ i > la) => a[i] = " "
      /\ \A i \in 1..Len(b) : (i < fb \/ i > lb) => b[i] = " "
      /\ \A k \in 0..(la - fa) : SameLetter(a[fa + k], b[fb + k])
      /\ fa <= la => (a[fa] # " " /\ a[la] # " ")
      /\ fb <= lb => (b[fb] # " " /\ b[lb] # " ")

\* C11: titles that differ only in letter case and in surrounding blanks
\* are one goal, and titles that differ otherwise never match: a listed
\* record has a goal exactly when a projection has such a title, and both
\* totals add up exactly the records with such a title.
C11_TitleMatchIgnoresCaseAndBlanks ==
    DetailShown =>
      \A k \in DOMAIN rendered.rows :
        LET M == rendered.rows[k].t
            data == rendered.rows[k].data
            alike == {i \in DOMAIN transactions :
                        SameGoalTitle(transactions[i].title, M.title)}
        IN IF activeModule = PROJECTION
           THEN data[1].currentTotal =
                  AmountOver({i \in alike : transactions[i].moduleId # PROJECTION})
           ELSE /\ (data # None) <=>
                     (\E i \in alike : transactions[i].moduleId = PROJECTION)
                /\ data # None =>
                     data[1].currentTotal =
                       AmountOver({i \in alike : transactions[i].moduleId = activeModule})

\* a record titled "A " listed with the goal of the projection " a"
C11_Witness ==
    /\ ForwardShown
    /\ \E k \in DOMAIN rendered.rows : \E i \in DOMAIN transactions :
         /\ rendered.rows[k].t.title = <<"A", " ">>
         /\ transactions[i].moduleId = PROJECTION
         /\ transactions[i].title = <<" ", "a">>
         /\ rendered.rows[k].data # None
    /\ \E j \in DOMAIN transactions : transactions[j].title = <<"a", " ", "b">>

(***************************************************************************)
(* C12, C13, C15 (SpecReverse, SpecGoal), C14 (SpecMatch)                  *)
(***************************************************************************)
\* C12: for a projection P listed in the projection module, goalAmount is
\* P.amount and currentTotal is the sum of amount over the records of the
\* selected month of the other modules whose normalized title is P's;
\* projection records never count.
C12_RealizationSumsOtherModules ==
    ReverseShown =>
      \A k \in DOMAIN rendered.rows :
        LET P == rendered.rows[k].t
            data == rendered.rows[k].data
        IN /\ data # None
           /\ data[1].goalAmount = P.amount
           /\ data[1].currentTotal =
                AmountOver({i \in DOMAIN transactions :
                              /\ transactions[i].moduleId # PROJECTION
                              /\ YearMonth(transactions[i]) = SelectedYearMonth
                              /\ SameTitle(transactions[i].title, P.title)})

\* two listed projections of one title and a record of that title in the
\* budget: both report the amount of the record alone
C12_Witness ==
    /\ ReverseShown
    /\ \E k1, k2 \in DOMAIN rendered.rows :
         /\ k1 # k2
         /\ SameTitle(rendered.rows[k1].t.title, rendered.rows[k2].t.title)
         /\ rendered.rows[k1].t.amount = 2
         /\ rendered.rows[k1].data[1].goalAmount = 2
         /\ rendered.rows[k1].data[1].currentTotal = 1
         /\ rendered.rows[k2].data[1].currentTotal = 1

\* C13: every projection listed in the projection module has a result,
\* and one without a realized record of its title in the selected month
\* has currentTotal 0 and isOver false.
C13_RealizationAlwaysPresent ==
    ReverseShown =>
      \A k \in DOMAIN rendered.rows :
        LET P == rendered.rows[k].t
            data == rendered.rows[k].data
            realized == {i \in DOMAIN transactions :
                           /\ transactions[i].moduleId # PROJECTION
                           /\ YearMonth(transactions[i]) = SelectedYearMonth
                           /\ SameTitle(transactions[i].title, P.title)}
        IN /\ data # None
           /\ realized = {} => (data[1].currentTotal = 0 /\ data[1].isOver = FALSE)

\* C14: in a non-projection module the result for a listed record is
\* absent exactly when no projection record has its normalized title, and
\* a present goalAmount is the amount of such a projection.
C14_AbsentIffNoProjectionTitled ==
    ForwardShown =>
      \A k \in DOMAIN rendered.rows :
        LET M == rendered.rows[k].t
            data == rendered.rows[k].data
        IN /\ (data = None) <=> (ProjectionsTitled(M.title) = {})
           /\ data # None =>
                \E i \in ProjectionsTitled(M.title) :
                  data[1].goalAmount = transactions[i].amount

\* one listed record without a goal beside one whose only projection is of
\* another month
C14_Witness ==
    /\ ForwardShown
    /\ \E k1, k2 \in DOMAIN rendered.rows :
         /\ rendered.rows[k1].data = None
         /\ rendered.rows[k2].data # None
         /\ \A i \in ProjectionsTitled(rendered.rows[k2].t.title) :
              YearMonth(transactions[i]) # SelectedYearMonth

\* the currentTotal getProjectionData reports for title in the module m
ForwardTotal(m, title) ==
    LET data == getProjectionData(m, transactions,
                  filteredTransactions(moduleTransactions(transactions, m), currentDate),
                  title)
    IN IF data = None THEN 0 ELSE data[1].currentTotal

\* C15: for a listed projection P, the currentTotal of getRealizationData
\* is the sum over the three other modules of the currentTotal that
\* getProjectionData reports for P's title in that module.
C15_ReverseTotalIsSumOfForwardTotals ==
    ReverseShown =>
      \A k \in DOMAIN rendered.rows :
        LET P == rendered.rows[k].t
            data == rendered.rows[k].data
        IN data[1].currentTotal =
             ForwardTotal(BUDGET, P.title) + ForwardTotal(TRAVEL, P.title)
               + ForwardTotal(INVESTMENT, P.title)

\* a projection of 2 and travel records of 1 and 2 of its title: the
\* projection and the travel module both report 3
C15_Witness ==
    /\ ReverseShown
    /\ \E k \in DOMAIN rendered.rows : \E i, j \in DOMAIN transactions :
         /\ transactions[i].moduleId = TRAVEL /\ transactions[i].amount = 1
         /\ transactions[j].moduleId = TRAVEL /\ transactions[j].amount = 2
         /\ rendered.rows[k].t.amount = 2
         /\ rendered.rows[k].data[1].currentTotal = 3
         /\ ForwardTotal(TRAVEL, rendered.rows[k].t.title) = 3

(***************************************************************************)
(* C17 (SpecForm)                                                          *)
(***************************************************************************)
\* C17: every record handleSubmit passes to onAdd or onEdit has an
\* amount >= 0, whatever the amount field holds.
C17_SubmittedAmountNonNegative ==
    \A i \in DOMAIN inflight :
      inflight[i].op \in {"insert", "update"} => inflight[i].arg[1].amount >= 0

(***************************************************************************)
(* C16 (SpecApp), C20 (SpecStore)                                          *)
(***************************************************************************)
\* no two records of the local list have the same id
UniqueIds ==
    \A i, j \in DOMAIN transactions :
      i # j => transactions[i].id # transactions[j].id

\* C16: once every fetchTransactions, handleAddTransaction,
\* handleEditTransaction and handleDeleteTransaction call has completed, no
\* two records of the local list have the same id.
C16_IdsUniqueAfterCompletedCalls == inflight = <<>> => UniqueIds

\* call i completes in this step after the store reported an error
FailureCompletes(i) ==
    /\ inflight[i].stage = "replied"
    /\ inflight[i].reply = "error"
    /\ inflight' = RemoveAt(inflight, i)

\* console.error of the catch block of each handler
CaughtMessage(op) ==
    CASE op = "select" -> "Error fetching transactions:"
      [] op = "insert" -> "Error adding transaction:"
      [] op = "update" -> "Error updating transaction:"
      [] op = "delete" -> "Error deleting transaction:"

\* C20: when the store reports an error for fetchTransactions,
\* handleAddTransaction, handleEditTransaction or handleDeleteTransaction,
\* the step that completes the handler leaves the local list as it was, the
\* error is caught and logged, and for a fetch isLoading ends false.
C20_StoreFailureLeavesListUnchanged ==
    [][\A i \in DOMAIN inflight :
         FailureCompletes(i) =>
           /\ transactions' = transactions
           /\ console' = CaughtMessage(inflight[i].op)
           /\ inflight[i].op = "select" => isLoading' = FALSE]_vars

\* a fetch has failed with records in the local list, and nothing is in flight
C20_Witness ==
    /\ console = "Error fetching transactions:"
    /\ transactions # <<>>
    /\ ~isLoading
    /\ inflight = <<>>

(***************************************************************************)
(* C18, C19 (SpecAdvice)                                                   *)
(***************************************************************************)
RiskLevels == {"Low", "Medium", "High"}

\* a summary string, exactly three tips and a riskLevel of RiskLevels
WellShaped(result) ==
    /\ result.kind = "object"
    /\ result.summary # None
    /\ result.tips # None /\ Len(result.tips[1]) = 3
    /\ result.riskLevel # None /\ result.riskLevel[1] \in RiskLevels

\* C18: every result getFinancialAdvice returns has a summary string,
\* exactly three tips and a riskLevel that is one of Low, Medium, High.
C18_ReturnedResultIsWellShaped ==
    ai.call.state = "resolved" => WellShaped(ai.call.value)

\* C19: getFinancialAdvice never rejects; a missing API key returns the
\* fixed result without calling the model; a failure of the model call or of
\* parsing returns the fixed neutral result with riskLevel Low; and after
\* every handleAiAnalysis run aiLoading is false again.
C19_AdviceDegradesGracefully ==
    /\ ai.call.state # "rejected"
    /\ ai.env # "key" => ai.call.state # "model"
    /\ ai.call.cause = "no key" => ai.call.value = NoKeyResult
    /\ ai.call.cause = "failure" =>
         ai.call.value = NeutralResult /\ ai.call.value.riskLevel = Some("Low")
    /\ ai.call.state = "none" => ~ai.aiLoading

(***************************************************************************)
(* C22, C24, C25, C26, C30 (SpecApp)                                       *)
(***************************************************************************)
\* the record-store calls that are sent and not yet handled
StoreCallsInFlight ==
    {i \in DOMAIN inflight :
       /\ inflight[i].op \in {"select", "insert", "update", "delete"}
       /\ inflight[i].stage \in {"sent", "replied"}}

\* C22: at no point are two record fetch/write calls in flight at the
\* same time.
C22_StoreCallsOneAtATime == Cardinality(StoreCallsInFlight) <= 1

\* the records of a list, and the records the store holds for a user
RecordsOf(list) == {list[k] : k \in DOMAIN list}
StoredFor(userId) == {FromRow(db[k]) : k \in {j \in DOMAIN db : db[j].user_id = userId}}

\* C24: once every call in flight has completed, the local list holds
\* exactly the records the store holds for the signed-in user.
C24_ListEqualsStoreWhenQuiet ==
    (inflight = <<>> /\ user # NoUser) => RecordsOf(transactions) = StoredFor(user)

\* C25: whenever user is null the local list is empty.
C25_NoRecordsWithoutUser == user = NoUser => transactions = <<>>

\* C26: isLoading is true in every state in which a fetchTransactions call
\* is in flight.
C26_LoadingWhileFetching ==
    (\E i \in DOMAIN inflight : inflight[i].op = "select") => isLoading

\* call i completes in this step after the store accepted it
SuccessCompletes(i, op) ==
    /\ inflight[i].op = op
    /\ inflight[i].stage = "replied"
    /\ inflight[i].reply = "ok"
    /\ inflight' = RemoveAt(inflight, i)

\* the positions of the local list that hold a record with this id
Holding(id) == {k \in DOMAIN transactions : transactions[k].id = id}

\* C30: a successful handleEditTransaction replaces in place the one record
\* with the edited id and leaves length, order and the other records alone;
\* a successful handleDeleteTransaction removes exactly the one record with
\* the given id.
C30_EditAndDeleteTouchOneRecord ==
    [][\A i \in DOMAIN inflight :
         /\ SuccessCompletes(i, "update") =>
              LET updated == inflight[i].arg[1]
              IN /\ Cardinality(Holding(updated.id)) <= 1
                 /\ Len(transactions') = Len(transactions)
                 /\ \A k \in DOMAIN transactions :
                      transactions'[k] = IF k \in Holding(updated.id) THEN updated
                                         ELSE transactions[k]
         /\ SuccessCompletes(i, "delete") =>
              LET id == inflight[i].arg[1].id
              IN /\ Cardinality(Holding(id)) <= 1
                 /\ \/ Holding(id) = {} /\ transactions' = transactions
                    \/ \E k \in Holding(id) : transactions' = RemoveAt(transactions, k)]_vars

(***************************************************************************)
(* C29 (SpecMonth)                                                         *)
(***************************************************************************)
RECURSIVE MonthsAfter(_, _)
\* goToNextMonth n times
MonthsAfter(date, n) == IF n = 0 THEN date ELSE MonthsAfter(MonthAfter(date), n - 1)

\* C29: from the selected month, goToPreviousMonth then goToNextMonth, and
\* goToNextMonth then goToPreviousMonth, select the same year and month
\* again; twelve goToNextMonth steps select the same month of the next
\* year; stepping back from January selects December of the year before.
C29_MonthNavigationIsBijection ==
    /\ MonthAfter(MonthBefore(currentDate)) = currentDate
    /\ MonthBefore(MonthAfter(currentDate)) = currentDate
    /\ MonthsAfter(currentDate, 12) =
         [year |-> getFullYear(currentDate) + 1, month |-> getMonth(currentDate)]
    /\ getMonth(currentDate) = 0 =>
         MonthBefore(currentDate) = [year |-> getFullYear(currentDate) - 1, month |-> 11]
    /\ getMonth(currentDate) \in 0..11

\* goToPreviousMonth was pressed on January 2024
C29_Witness == currentDate = [year |-> 2023, month |-> 11]

(***************************************************************************)
(* C23 (SpecChart)                                                         *)
(***************************************************************************)
ChartShown == rendered.kind = "chart"

\* C23: the bars of the monthly chart, one per day, appear in ascending
\* day order.
C23_BarsInAscendingDayOrder ==
    ChartShown =>
      \A i, j \in DOMAIN rendered.bars :
        i < j => Number(rendered.bars[i].name) < Number(rendered.bars[j].name)

(***************************************************************************)
(* C28 (SpecForm)                                                          *)
(***************************************************************************)
\* the form is open and holds the fields of record t
OpenAndFilledWith(f, t) ==
    /\ f.isFormOpen
    /\ f.title = t.title
    /\ f.amount = toString(t.amount)
    /\ f.type = t.type
    /\ f.date = t.date

\* C28: from every view state with the form closed, clicking the edit
\* button of a listed record leaves the form open and filled with that
\* record's title, amount, type and date.
C28_EditClickOpensFilledForm ==
    (DetailMounted /\ ~form.isFormOpen) =>
      \A t \in ListedRecords : OpenAndFilledWith(AfterEditClick(form, t), t)

(***************************************************************************)
(* C27 (SpecLoad)                                                          *)
(***************************************************************************)
\* C27: provided the session check and every started fetch settle, loading
\* ends: from startup, and from every later state with isLoading true,
\* isLoading becomes false.
C27_LoadingTerminates == isLoading ~> ~isLoading

\* loading has ended for a signed-in user whose fetch failed
C27_Witness ==
    /\ ~isLoading
    /\ user # NoUser
    /\ console = "Error fetching transactions:"
    /\ inflight = <<>>

(***************************************************************************)
(* C21 (SpecFrame)                                                         *)
(***************************************************************************)
\* in this step a handler returns from a call the store accepted: a
\* submitted add or edit, a delete, or a load
AcceptedCallReturns ==
    \E i \in DOMAIN inflight :
      /\ inflight[i].op \in {"select", "insert", "update", "delete"}
      /\ inflight[i].stage = "replied"
      /\ inflight[i].reply = "ok"
      /\ inflight' = RemoveAt(inflight, i)

\* in this step the onAuthStateChange callback runs without a session
SignedOut == user' = NoUser /\ session' = NoUser /\ transactions' = <<>>

\* C21 as stated: the local list changes only when a submitted add or
\* edit, a delete or a load returns.
C21_ListChangesOnlyThroughStore ==
    [][transactions' # transactions => AcceptedCallReturns]_vars

\* C21: the local list changes only when a submitted add or edit, a delete
\* or a load returns, or when the session ends; selecting a module,
\* navigating months, opening or cancelling the form, computing the
\* reconciliation data and running the AI analysis leave it unchanged.
C21_ListChangesOnlyThroughStoreOrSignOut ==
    [][transactions' # transactions => (AcceptedCallReturns \/ SignedOut)]_vars

\* another month is selected, the form is open and an analysis is shown,
\* with the records still in the list
C21_Witness ==
    /\ currentDate # Today
    /\ form.isFormOpen
    /\ ai.aiResult # None
    /\ rendered.kind = "detail"
    /\ transactions # <<>>

====
